---- MODULE Spec2Model ----
(***************************************************************************)
(* tower::util::BoxLayer (src/tower/src/util/boxed/layer.rs).              *)
(*                                                                         *)
(* BoxLayer::new moves a concrete layer into a closure, wraps the closure  *)
(* with layer_fn and stores it behind an Arc.  Layer::layer on a BoxLayer  *)
(* calls the closure through the Arc: the closure calls the concrete       *)
(* layer's layer() and hands the produced service to BoxService::new.      *)
(* Clone copies the Arc; dropping a BoxLayer drops its Arc.                *)
(*                                                                         *)
(* The model keeps the Arc's heap block (strong count + closure capture),  *)
(* the BoxLayer handles owned by threads, the position of every thread     *)
(* inside a layer() call, and the heap of boxed services already returned. *)
(***************************************************************************)
EXTENDS Integers, Sequences, FiniteSets, TLC

\* ------------------------------------------------------------------ bounds
MaxAdapters == 2   \* BoxLayer::new calls in one run
MaxHandles  == 2   \* BoxLayer values ever created (new + clone)
MaxBoxes    == 2   \* layer() calls ever started (BoxService values made)

Threads  == {"t1", "t2"}
Main     == "t1"
Requests == {"ping", "nope"}

AdapterIds == 1..MaxAdapters
HandleIds  == 1..MaxHandles
BoxIds     == 1..MaxBoxes

\* ------------------------------------------------ the caller's inputs
\* Values of the type parameter In handed to layer(): inner services.
\* "echo" answers the request "ping" with Ok("ping") and fails any other
\* with Err("nack"); "bad" is a value the concrete layers refuse: their
\* layer() panics on it.
Inners == {"echo", "bad"}

\* Concrete layers L handed to BoxLayer::new.  AlwaysFail's service fails
\* every call with "boom".  Budget's service is stateful: it passes cap
\* calls on to the inner service and then fails with "limit".  Pool is a
\* layer whose services share one counter (as services share a semaphore):
\* together they pass cap calls on and then fail with "limit".
Wrappers ==
  { [kind |-> "AlwaysFail", cap |-> 0, pool |-> 0],
    [kind |-> "Budget",     cap |-> 1, pool |-> 0],
    [kind |-> "Pool",       cap |-> 1, pool |-> 0] }

NoLayer == [kind |-> "NoLayer", cap |-> 0, pool |-> 0]

\* The layer value handed to the a-th BoxLayer::new: a Pool layer comes with
\* a shared counter of its own, counter a.
Given(L, a) == IF L.kind = "Pool" THEN [L EXCEPT !.pool = a] ELSE L

\* ------------------------------------------------------------ results
Ok(v)  == [ok |-> TRUE,  val |-> v]
Err(e) == [ok |-> FALSE, val |-> e]
Undefined == [ok |-> FALSE, val |-> "<undefined behaviour>"]

\* --------------------------------------------- the Service contract
\* A concrete service value, as L::layer(inner) returns it.  touched
\* records that poll_ready or call has run on the service; used counts the
\* calls a Budget service has let through; pool is the shared counter a
\* Pool service points to.
Svc(layer, x) ==
  [tag |-> "Svc", kind |-> layer.kind, inner |-> x, used |-> 0,
   cap |-> layer.cap, pool |-> layer.pool, touched |-> FALSE]

NotASvc(tag) ==
  [tag |-> tag, kind |-> "-", inner |-> "-", used |-> 0, cap |-> 0,
   pool |-> 0, touched |-> FALSE]

Panic   == NotASvc("Panic")
Garbage == NotASvc("Garbage")
NoSvc   == NotASvc("None")

\* An inner service used as it is, with no layer around it.
Bare(x) == [NotASvc("Svc") EXCEPT !.kind = "Inner", !.inner = x]

\* Service::poll_ready(&mut self) on a concrete service: always ready.
PollReady(svc) == [svc EXCEPT !.touched = TRUE]

\* The future a concrete service returns from call(): ready with a result.
Ready(res) == [tag |-> "Ready", res |-> res]

\* Service::call on an inner service of type In.
InnerCall(x, req) ==
  IF x = "echo" /\ req = "ping" THEN Ok(req) ELSE Err("nack")

\* Service::call(&mut self, req) on a concrete service, with the shared
\* counters as they are: the service after the call, the future it
\* returned, and the shared counters after the call.
Call(svc, req, shared) ==
  LET me == [svc EXCEPT !.touched = TRUE]
  IN CASE svc.kind = "Inner" ->
            [svc |-> me, fut |-> Ready(InnerCall(svc.inner, req)),
             shared |-> shared]
       [] svc.kind = "AlwaysFail" ->
            [svc |-> me, fut |-> Ready(Err("boom")), shared |-> shared]
       [] svc.kind = "Budget" ->
            IF svc.used < svc.cap
              THEN [svc |-> [me EXCEPT !.used = svc.used + 1],
                    fut |-> Ready(InnerCall(svc.inner, req)),
                    shared |-> shared]
              ELSE [svc |-> me, fut |-> Ready(Err("limit")),
                    shared |-> shared]
       [] svc.kind = "Pool" ->
            IF shared[svc.pool] < svc.cap
              THEN [svc |-> me, fut |-> Ready(InnerCall(svc.inner, req)),
                    shared |-> [shared EXCEPT ![svc.pool] = @ + 1]]
              ELSE [svc |-> me, fut |-> Ready(Err("limit")),
                    shared |-> shared]
       [] OTHER -> [svc |-> svc, fut |-> Ready(Undefined), shared |-> shared]

\* Layer::layer(&self, inner) of a concrete layer L: a new service around
\* inner.  A layer that was dropped has no defined result.
LayerCall(layer, x) ==
  CASE layer.kind = "NoLayer" -> Garbage
    [] x = "bad"              -> Panic
    [] OTHER                  -> Svc(layer, x)

\* ------------------------------------------------ BoxService (erasure)
\* BoxService::new(svc): the service moved into a Box<dyn Service>.
BoxServiceNew(svc) == [tag |-> "BoxService", inner |-> svc]

\* BoxService::poll_ready: the inner service's poll_ready.
BoxPollReady(bs) ==
  IF bs.tag = "BoxService" THEN [bs EXCEPT !.inner = PollReady(@)] ELSE bs

\* BoxService::call: the inner call, its future boxed.
BoxCall(bs, req, shared) ==
  IF bs.tag = "BoxService"
    THEN LET o == Call(bs.inner, req, shared)
         IN [svc |-> [bs EXCEPT !.inner = o.svc],
             fut |-> [tag |-> "BoxFuture", inner |-> o.fut],
             shared |-> o.shared]
    ELSE [svc |-> bs,
          fut |-> [tag |-> "BoxFuture", inner |-> Ready(Undefined)],
          shared |-> shared]

\* Awaiting a future: its result.
RECURSIVE Await(_)
Await(f) == IF f.tag = "BoxFuture" THEN Await(f.inner) ELSE f.res

\* ------------------------------------------------------------- state
VARIABLES
  adapters,   \* the ArcInner blocks: strong count and the closure's capture
  handles,    \* the BoxLayer values: the Arc pointer each holds (and, as
              \* history, fam: the new() call it descends from)
  pc,         \* each thread's position: idle, inside layer(), or unwinding
  frame,      \* each thread's locals inside layer(): &self and inner
  cells,      \* the heap blocks BoxService::new allocated (Box<dyn Service>)
  pools,      \* the counters Pool layers share with their services
  boxes,      \* the BoxService values returned by layer()
  built,      \* history: the layer BoxLayer::new was given, per live block
  origin,     \* history: the BoxLayer each BoxLayer::new returned
  wrapCalls,  \* history: calls of a concrete layer's layer()
  applyCalls, \* history: calls of <BoxLayer as Layer>::layer
  panicAt,    \* history: the operations a panic of the wrap step came out of
  late        \* history: a BoxService was called after its Arc block was freed

vars == <<adapters, handles, pc, frame, cells, pools, boxes, built, origin,
          wrapCalls, applyCalls, panicAt, late>>

NoAdapter == [state |-> "unalloc", strong |-> 0, inner_layer |-> NoLayer]
NoHandle  == [state |-> "none", boxed |-> 0, fam |-> 0]
NoFrame   == [self |-> 0, inner |-> "-"]
NoCell    == [tag |-> "Unalloc"]
FreedCell == [tag |-> "Freed"]
NoBox     == [state |-> "none", cell |-> 0, from |-> 0, x |-> "-",
              ref |-> NoSvc]

Init ==
  /\ adapters   = [a \in AdapterIds |-> NoAdapter]
  /\ handles    = [h \in HandleIds |-> NoHandle]
  /\ pc         = [t \in Threads |-> "idle"]
  /\ frame      = [t \in Threads |-> NoFrame]
  /\ cells      = [c \in BoxIds |-> NoCell]
  /\ pools      = [a \in AdapterIds |-> 0]
  /\ boxes      = [b \in BoxIds |-> NoBox]
  /\ built      = [a \in AdapterIds |-> NoLayer]
  /\ origin     = [a \in AdapterIds |-> 0]
  /\ wrapCalls  = 0
  /\ applyCalls = 0
  /\ panicAt    = {}
  /\ late       = FALSE

\* ------------------------------------------------------------ helpers
Min(S) == CHOOSE m \in S : \A n \in S : m <= n

FreeAdapters == {a \in AdapterIds : adapters[a].state = "unalloc"}
FreeHandles  == {h \in HandleIds : handles[h].state = "none"}
FreeBoxes    == {b \in BoxIds : boxes[b].state = "none"}
FreeCells    == {c \in BoxIds : cells[c].tag = "Unalloc"}

LiveHandles  == {h \in HandleIds : handles[h].state = "live"}
HandlesOf(a) == {h \in LiveHandles : handles[h].boxed = a}
LiveBoxes    == {b \in BoxIds : boxes[b].state = "live"}
InLayer(t)   == pc[t] = "layer"
Borrowed     == {frame[t].self : t \in {u \in Threads : InLayer(u)}}

\* Mutant: the increment is lost (a plain copy of the pointer).
FetchAddLost(n) == n

\* Arc: the strong count after fetch_add(1) / fetch_sub(1).
FetchAdd(n) == n + 1
FetchSub(n) == n - 1

\* --------------------------------------------------------- BoxLayer::new
\* The closure built by BoxLayer::new captures inner_layer by move; the
\* LayerFn holding it is put in a new Arc with strong count 1.  The
\* concrete layer's layer() is not called here.
ArcNew(layer) == [state |-> "live", strong |-> 1, inner_layer |-> layer]

NewWith(t, L, wraps, panics) ==
  /\ pc[t] = "idle"
  /\ FreeAdapters # {} /\ FreeHandles # {}
  /\ LET a == Min(FreeAdapters)
         h == Min(FreeHandles)
     IN /\ adapters' = [adapters EXCEPT ![a] = ArcNew(Given(L, a))]
        /\ handles'  = [handles EXCEPT ![h] =
                          [state |-> "live", boxed |-> a, fam |-> a]]
        /\ origin'   = [origin EXCEPT ![a] = h]
        /\ built'    = [built EXCEPT ![a] = Given(L, a)]
  /\ wrapCalls' = wraps
  /\ panicAt'   = panics
  /\ UNCHANGED <<pools, pc, frame, cells, boxes, applyCalls, late>>

\* Mutant: new() calls the concrete layer's layer() itself.
NewEager(t, L) == NewWith(t, L, wrapCalls + 1, panicAt)

New(t, L) == NewWith(t, L, wrapCalls, panicAt)

\* ------------------------------------------------------- Clone::clone
\* Arc::clone(&self.boxed): the same pointer, the strong count
\* incremented atomically.
ArcClone(blk) == [blk EXCEPT !.strong = FetchAdd(blk.strong)]

CloneWith(t, h, target, blocks) ==
  /\ pc[t] = "idle"
  /\ h \in LiveHandles
  /\ FreeHandles # {}
  /\ LET n == Min(FreeHandles)
     IN handles' = [handles EXCEPT ![n] =
                      [state |-> "live", boxed |-> target,
                       fam |-> handles[h].fam]]
  /\ adapters' = blocks
  /\ UNCHANGED <<pools, pc, frame, cells, boxes, built, origin, wrapCalls,
                 applyCalls, panicAt, late>>

\* Mutant: clone copies the LayerFn into an Arc block of its own.
CloneDeep(t, h) ==
  IF FreeAdapters = {}
    THEN CloneWith(t, h, handles[h].boxed,
                   [adapters EXCEPT ![handles[h].boxed] = ArcClone(@)])
    ELSE CloneWith(t, h, Min(FreeAdapters),
                   [adapters EXCEPT ![Min(FreeAdapters)] =
                      ArcNew(adapters[handles[h].boxed].inner_layer)])

Clone(t, h) ==
  CloneWith(t, h, handles[h].boxed,
            [adapters EXCEPT ![handles[h].boxed] = ArcClone(@)])

\* ------------------------------------------------------- drop(BoxLayer)
\* Arc::drop: the strong count decremented atomically; the thread that
\* takes it from 1 to 0 drops the LayerFn (and the concrete layer in it)
\* and frees the block.  A BoxLayer borrowed by a layer() call in progress
\* cannot be dropped.
\* Mutant: every drop frees the block, whatever the count.
ArcDropAlways(blk) ==
  [state |-> "freed", strong |-> 0, inner_layer |-> NoLayer]

ArcDrop(blk) ==
  IF blk.strong = 1
    THEN [state |-> "freed", strong |-> 0, inner_layer |-> NoLayer]
    ELSE [blk EXCEPT !.strong = FetchSub(blk.strong)]

Drop(t, h) ==
  /\ pc[t] = "idle"
  /\ h \in LiveHandles /\ h \notin Borrowed
  /\ LET a == handles[h].boxed
     IN /\ adapters' = [adapters EXCEPT ![a] = ArcDrop(@)]
        /\ built'    = [built EXCEPT ![a] =
                          IF adapters'[a].state = "freed" THEN NoLayer ELSE @]
  /\ handles' = [handles EXCEPT ![h] = [NoHandle EXCEPT !.state = "dropped"]]
  /\ UNCHANGED <<pools, pc, frame, cells, boxes, origin, wrapCalls,
                 applyCalls, panicAt, late>>

\* ------------------------------------------ <BoxLayer as Layer>::layer
\* Mutant: the closure uses the layer of the first live Arc block, not its
\* own.
ClosureOutOther(blk, inner) ==
  LayerCall(adapters[Min({a \in AdapterIds : adapters[a].state = "live"})]
              .inner_layer, inner)

\* Mutant: the closure boxes inner itself, without calling the layer.
ClosureOutNoWrap(blk, inner) == Bare(inner)

\* let out = inner_layer.layer(inner): the closure reads its capture through
\* the Arc block.
ClosureOut(blk, inner) == LayerCall(blk.inner_layer, inner)

\* Mutant: the closure polls the new service before boxing it.
ClosureRetPolled(out) == BoxServiceNew(PollReady(out))

\* BoxService::new(out): the value the closure, and so layer(), returns.
ClosureRet(out) == BoxServiceNew(out)

\* Mutant: the heap block of a service made earlier from the same Arc block
\* and inner value is used again.
CellForCached(a, inner) ==
  LET same == {b \in LiveBoxes : boxes[b].from = a /\ boxes[b].x = inner}
  IN IF same = {} THEN Min(FreeCells) ELSE boxes[Min(same)].cell

\* The heap block BoxService::new puts the service in: a new one.
CellFor(a, inner) == Min(FreeCells)

\* Mutant: the returned service keeps a clone of the Arc.
AfterLayerHeld(a) == [adapters EXCEPT ![a].strong = @ + 1]

\* The Arc blocks after self.boxed.layer(inner): the call goes through
\* &self and the closure is a Fn, so block a is only read.
AfterLayer(a) == adapters

\* self.boxed.layer(inner): the LayerFn behind the Arc runs the closure on
\* inner.  A panic of the concrete layer unwinds out of layer() to the
\* caller; otherwise the BoxService is returned.  ref keeps, beside it, the
\* concrete service the layer given to new() makes from the same inner
\* value, called with the same requests.
LayerBody(a, inner) ==
  /\ LET out == ClosureOut(adapters[a], inner)
         b   == Min(FreeBoxes)
         c   == CellFor(a, inner)
     IN IF out.tag = "Panic"
          THEN /\ panicAt' = panicAt \cup {"layer"}
               /\ UNCHANGED <<cells, boxes>>
          ELSE /\ panicAt' = panicAt
               /\ cells'   = [cells EXCEPT ![c] = ClosureRet(out)]
               /\ boxes'   = [boxes EXCEPT ![b] =
                                [state |-> "live", cell |-> c, from |-> a,
                                 x |-> inner,
                                 ref |-> LayerCall(built[a], inner)]]
  /\ wrapCalls' = wrapCalls + 1
  /\ adapters'  = AfterLayer(a)

\* layer(&self, inner) run by one thread from call to return.
Layer(t, h, x) ==
  /\ pc[t] = "idle"
  /\ h \in LiveHandles
  /\ applyCalls < MaxBoxes
  /\ applyCalls' = applyCalls + 1
  /\ LayerBody(handles[h].boxed, x)
  /\ UNCHANGED <<pools, handles, pc, frame, built, origin, late>>

\* The same call in two steps, for threads that run concurrently:
\* LayerEnter borrows the BoxLayer for the call, LayerReturn follows the Arc
\* pointer, runs the closure and returns.
LayerEnter(t, h, x) ==
  /\ pc[t] = "idle"
  /\ h \in LiveHandles
  /\ applyCalls < MaxBoxes
  /\ pc'    = [pc EXCEPT ![t] = "layer"]
  /\ frame' = [frame EXCEPT ![t] = [self |-> h, inner |-> x]]
  /\ applyCalls' = applyCalls + 1
  /\ UNCHANGED <<pools, adapters, handles, cells, boxes, built, origin,
                 wrapCalls, panicAt, late>>

LayerReturn(t) ==
  /\ pc[t] = "layer"
  /\ LayerBody(handles[frame[t].self].boxed, frame[t].inner)
  /\ pc'    = [pc EXCEPT ![t] = "idle"]
  /\ frame' = [frame EXCEPT ![t] = NoFrame]
  /\ UNCHANGED <<pools, handles, built, origin, applyCalls, late>>

\* ------------------------------------------- using a returned BoxService
\* ready().await, then call(req).await, on a BoxService the caller holds:
\* the result the caller gets.  A BoxService whose heap block is gone has no
\* defined result.
Answer(bs, req, shared) == Await(BoxCall(BoxPollReady(bs), req, shared).fut)

InvokeResult(b, req) == Answer(cells[boxes[b].cell], req, pools)

\* The same on the concrete service kept beside it.
RefResult(b, req) == Await(Call(PollReady(boxes[b].ref), req, pools).fut)

Invoke(b, req) ==
  /\ b \in LiveBoxes
  /\ LET c == boxes[b].cell
         o == BoxCall(BoxPollReady(cells[c]), req, pools)
     IN /\ cells' = [cells EXCEPT ![c] =
                       IF @.tag = "BoxService" THEN o.svc ELSE @]
        /\ pools' = o.shared
        /\ boxes' = [boxes EXCEPT ![b].ref =
                       Call(PollReady(@), req, pools).svc]
        /\ late'  = (late \/ adapters[boxes[b].from].state = "freed")
  /\ UNCHANGED <<adapters, handles, pc, frame, built, origin, wrapCalls,
                 applyCalls, panicAt>>

\* drop(BoxService): the box frees its heap block.
DropBox(b) ==
  /\ b \in LiveBoxes
  /\ boxes' = [boxes EXCEPT ![b] = [NoBox EXCEPT !.state = "dropped"]]
  /\ cells' = [cells EXCEPT ![boxes[b].cell] = FreedCell]
  /\ UNCHANGED <<pools, adapters, handles, pc, frame, built, origin,
                 wrapCalls, applyCalls, panicAt, late>>

\* What layer(inner) called on BoxLayer h now comes out with: a panic of
\* the concrete layer unwinds before BoxService::new runs, so no value is
\* returned; otherwise the BoxService the closure returns.
LayerValue(h, x) ==
  LET out == ClosureOut(adapters[handles[h].boxed], x)
  IN IF out.tag = "Panic" THEN Panic ELSE ClosureRet(out)

\* ---------------------------------------------------------------- Next
\* One caller at a time: every operation runs from call to return, and the
\* returned services are used and dropped.
Next ==
  \/ \E L \in Wrappers : New(Main, L)
  \/ \E h \in HandleIds : Clone(Main, h)
  \/ \E h \in HandleIds : Drop(Main, h)
  \/ \E h \in HandleIds, x \in Inners : Layer(Main, h, x)
  \/ \E b \in BoxIds, req \in Requests : Invoke(b, req)
  \/ \E b \in BoxIds : DropBox(b)

Spec == Init /\ [][Next]_vars

\* Threads running concurrently: new, clone, drop and the two steps of
\* layer() interleave freely.
NextThreads ==
  \/ \E t \in Threads, L \in Wrappers : New(t, L)
  \/ \E t \in Threads, h \in HandleIds : Clone(t, h)
  \/ \E t \in Threads, h \in HandleIds : Drop(t, h)
  \/ \E t \in Threads, h \in HandleIds, x \in Inners : LayerEnter(t, h, x)
  \/ \E t \in Threads : LayerReturn(t)

SpecThreads == Init /\ [][NextThreads]_vars

\* ============================================================ properties
Became(b)  == boxes[b].state = "none" /\ boxes'[b].state = "live"
Returned(t) == pc[t] = "layer" /\ pc'[t] = "idle"
Entered(t)  == pc[t] = "idle" /\ pc'[t] = "layer"
GoodInners == Inners \ {"bad"}

\* What layer(x) on a BoxLayer made from layer L returns when nothing else
\* runs: L's service around x, erased.
ApplyAlone(L, x) == BoxServiceNew(LayerCall(L, x))

\* C1: the BoxService layer(x) returns on BoxLayer::new(L) is the erased
\* L.layer(x): at every moment it holds exactly the state L.layer(x) has
\* after the same calls, and every request gets from it the result (Ok or
\* Err) it gets from L.layer(x); the layer of another BoxLayer plays no part.
C1_ApplyIsErasedWrap ==
  \A b \in LiveBoxes :
    /\ cells[boxes[b].cell] = BoxServiceNew(boxes[b].ref)
    /\ \A r \in Requests : InvokeResult(b, r) = RefResult(b, r)

\* A BoxService made through one of two live BoxLayers with different
\* layers has been called.
C1_Witness ==
  \E b \in LiveBoxes :
    /\ boxes[b].ref.touched
    /\ \E a \in AdapterIds :
         /\ a # boxes[b].from
         /\ adapters[a].state = "live"
         /\ built[a].kind # boxes[b].ref.kind

\* C2: a failure of the concrete service comes out of the BoxService
\* unchanged (never a success, never another failure), and a BoxService
\* made by a layer whose service always fails with "boom" answers every
\* request with Err("boom").
C2_FailurePropagates ==
  \A b \in LiveBoxes : \A r \in Requests :
    /\ ~RefResult(b, r).ok =>
         /\ ~InvokeResult(b, r).ok
         /\ InvokeResult(b, r).val = RefResult(b, r).val
    /\ boxes[b].ref.kind = "AlwaysFail" => InvokeResult(b, r) = Err("boom")

\* An always-failing BoxService around an inner service that would succeed
\* has been called.
C2_Witness ==
  \E b \in LiveBoxes :
    /\ boxes[b].ref.kind = "AlwaysFail"
    /\ boxes[b].x = "echo"
    /\ boxes[b].ref.touched

\* C3: a clone holds the Arc block of the BoxLayer it was cloned from;
\* clone increments that block's strong count by one and allocates nothing
\* (every block comes from a new()); layer(x) on a BoxLayer and on any of
\* its clones returns the same value.
C3Inv ==
  /\ \A h \in LiveHandles : handles[h].boxed = handles[h].fam
  /\ \A a \in AdapterIds : adapters[a].state # "unalloc" => origin[a] # 0
  /\ \A h1, h2 \in LiveHandles :
       handles[h1].fam = handles[h2].fam =>
         \A x \in Inners : LayerValue(h1, x) = LayerValue(h2, x)

C3Step ==
  \A n \in HandleIds :
    (/\ handles[n].state = "none" /\ handles'[n].state = "live"
     /\ origin' = origin)
      => /\ \E h \in LiveHandles : handles'[n].boxed = handles[h].boxed
         /\ adapters' = [adapters EXCEPT ![handles'[n].boxed].strong = @ + 1]

C3_CloneShares == []C3Inv /\ [][C3Step]_vars

\* A BoxLayer and its clone are both held and layer() has returned two
\* services for the same inner value from their block.
C3_Witness ==
  \E a \in AdapterIds :
    /\ adapters[a].strong = 2
    /\ origin[a] \in HandlesOf(a)
    /\ \E b1, b2 \in LiveBoxes :
         b1 # b2 /\ boxes[b1].from = a /\ boxes[b2].from = a
         /\ boxes[b1].x = boxes[b2].x

\* C4 as amended: every layer() call calls the concrete layer once and
\* returns a service of its own, newly made: two BoxServices never share a
\* heap block, a new one is in the state L.layer(x) starts in, and calling
\* or dropping one BoxService leaves the state of every other one as it
\* was, and its answers too unless the concrete layer's services share
\* state among themselves and that state has changed.
C4Inv ==
  /\ wrapCalls = applyCalls
  /\ \A b \in LiveBoxes : cells[boxes[b].cell].tag = "BoxService"
  /\ \A b1, b2 \in LiveBoxes : b1 # b2 => boxes[b1].cell # boxes[b2].cell

\* Each layer() call is one call of the concrete layer and yields a new
\* service in a block that was free.
C4Fresh ==
  /\ applyCalls' = applyCalls + 1 => wrapCalls' = wrapCalls + 1
  /\ \A b \in BoxIds :
       Became(b) =>
         /\ cells[boxes'[b].cell].tag = "Unalloc"
         /\ cells'[boxes'[b].cell] =
              ApplyAlone(built[boxes'[b].from], boxes'[b].x)

\* The BoxServices held before and after the step, b0 apart; among them,
\* those made from the same BoxLayer and inner value as b0.
Others(b0) == {b \in LiveBoxes \ {b0} : boxes'[b].state = "live"}
Twins(b0)  == {b \in Others(b0) : /\ boxes[b].from = boxes[b0].from
                                  /\ boxes[b].x = boxes[b0].x}

SameState(b)   == cells'[boxes'[b].cell] = cells[boxes[b].cell]
SameAnswers(b) ==
  \A r \in Requests :
    Answer(cells'[boxes'[b].cell], r, pools') = InvokeResult(b, r)
SharedMoved(b) ==
  boxes[b].ref.pool # 0 /\ pools'[boxes[b].ref.pool] # pools[boxes[b].ref.pool]

C4Step ==
  /\ C4Fresh
  /\ \/ (cells' = cells /\ boxes' = boxes /\ pools' = pools)
     \/ \E b0 \in BoxIds :
          \A b \in Others(b0) :
            SameState(b) /\ (SharedMoved(b) \/ SameAnswers(b))

C4_IndependentInstances == []C4Inv /\ [][C4Step]_vars

\* C4 as stated: ... and calling or dropping one of two BoxServices made
\* from the same BoxLayer and inner value changes neither the state nor the
\* answers of the other.
C4StepStated ==
  /\ C4Fresh
  /\ \/ (cells' = cells /\ boxes' = boxes /\ pools' = pools)
     \/ \E b0 \in BoxIds :
          \A b \in Twins(b0) : SameState(b) /\ SameAnswers(b)

C4_Stated == []C4Inv /\ [][C4StepStated]_vars

\* Two BoxServices from the same BoxLayer and inner value: one has been
\* called and has used up its own budget, the other is still as new and
\* still answers Ok.
C4_Witness ==
  \E b1, b2 \in LiveBoxes :
    /\ b1 # b2
    /\ boxes[b1].from = boxes[b2].from /\ boxes[b1].x = boxes[b2].x
    /\ boxes[b2].ref.kind = "Budget"
    /\ InvokeResult(b1, "ping") = Err("limit")
    /\ cells[boxes[b2].cell] = ApplyAlone(built[boxes[b2].from], boxes[b2].x)
    /\ InvokeResult(b2, "ping") = Ok("ping")

\* C5: with threads interleaving new, clone, drop and the steps of layer(),
\* no step changes the layer a live Arc block holds, every strong count
\* moves by exactly the number of BoxLayers gained or lost in that step
\* (by one at most), and a layer() call returns what it returns when it
\* runs alone.
C5Step ==
  /\ \A a \in AdapterIds :
       /\ (adapters[a].state = "live" /\ adapters'[a].state = "live")
            => adapters'[a].inner_layer = adapters[a].inner_layer
       /\ adapters'[a].state = "live" => adapters'[a].inner_layer = built'[a]
       /\ adapters'[a].strong - adapters[a].strong \in {-1, 0, 1}
       /\ adapters'[a].strong - adapters[a].strong =
            Cardinality(HandlesOf(a)') - Cardinality(HandlesOf(a))
  /\ \A b \in BoxIds :
       Became(b) =>
         cells'[boxes'[b].cell] = ApplyAlone(built[boxes'[b].from], boxes'[b].x)

C5_RaceFree == [][C5Step]_vars

\* Two threads are inside layer() at once, on two BoxLayers that share one
\* Arc block.
C5_Witness ==
  \E t1, t2 \in Threads :
    /\ t1 # t2 /\ InLayer(t1) /\ InLayer(t2)
    /\ frame[t1].self # frame[t2].self
    /\ handles[frame[t1].self].boxed = handles[frame[t2].self].boxed
    /\ adapters[handles[frame[t1].self].boxed].strong = 2

\* C6: the strong count of an Arc block is the number of BoxLayers holding
\* it; the block and its layer exist while that number is positive and are
\* gone as soon as it is zero; every BoxLayer held points to a live block on
\* which layer() works.
C6_RefCountLifecycle ==
  /\ \A a \in AdapterIds :
       /\ adapters[a].strong = Cardinality(HandlesOf(a))
       /\ adapters[a].state = "live" <=> HandlesOf(a) # {}
       /\ adapters[a].state = "freed" <=> (origin[a] # 0 /\ HandlesOf(a) = {})
       /\ adapters[a].state = "live" =>
            \E L \in Wrappers : adapters[a].inner_layer = Given(L, a)
  /\ \A h \in LiveHandles :
       /\ adapters[handles[h].boxed].state = "live"
       /\ \A x \in GoodInners :
            LayerValue(h, x) = ApplyAlone(built[handles[h].fam], x)

\* The BoxLayer new() returned has been dropped, a clone is still held, and
\* layer() has returned a service from the block.
C6_Witness ==
  \E a \in AdapterIds :
    /\ origin[a] # 0 /\ handles[origin[a]].state = "dropped"
    /\ HandlesOf(a) # {}
    /\ \E b \in LiveBoxes : boxes[b].from = a

\* C8: new() never calls the concrete layer and always returns a BoxLayer;
\* the concrete layer's layer() runs only inside a layer() call on a
\* BoxLayer, so its calls never outnumber those, and a panic of it comes
\* out of layer() only.
C8Inv ==
  /\ wrapCalls + Cardinality({t \in Threads : InLayer(t)}) = applyCalls
  /\ panicAt \subseteq {"layer"}

C8Step ==
  /\ (wrapCalls' # wrapCalls \/ panicAt' # panicAt) =>
       /\ wrapCalls' = wrapCalls + 1
       /\ \E t \in Threads : Returned(t)
  /\ origin' # origin =>
       /\ wrapCalls' = wrapCalls /\ panicAt' = panicAt
       /\ \E h \in HandleIds :
            handles[h].state = "none" /\ handles'[h].state = "live"

C8_ConstructLazy == []C8Inv /\ [][C8Step]_vars

\* A panic of the concrete layer has come out of a layer() call.
C8_Witness == panicAt = {"layer"} /\ wrapCalls >= 1

\* C9: a layer() call changes no BoxLayer and no Arc block (strong counts
\* included) and touches no service made earlier; it either passes on the
\* concrete layer's panic or returns one new BoxService whose service has
\* been neither polled nor called.
C9Step ==
  /\ \A t \in Threads :
       Entered(t) =>
         /\ adapters' = adapters /\ handles' = handles
         /\ boxes' = boxes /\ cells' = cells
  /\ \A t \in Threads :
       Returned(t) =>
         LET a == handles[frame[t].self].boxed
             x == frame[t].inner
         IN /\ adapters' = adapters /\ handles' = handles
            /\ \A b \in BoxIds : boxes[b].state # "none" => boxes'[b] = boxes[b]
            /\ \A c \in BoxIds :
                 cells[c].tag # "Unalloc" => cells'[c] = cells[c]
            /\ IF LayerCall(built[a], x).tag = "Panic"
                 THEN boxes' = boxes /\ cells' = cells
                 ELSE /\ panicAt' = panicAt
                      /\ \E b \in BoxIds :
                           /\ Became(b)
                           /\ cells'[boxes'[b].cell].tag = "BoxService"
                           /\ ~cells'[boxes'[b].cell].inner.touched
                           /\ cells'[boxes'[b].cell].inner.used = 0

C9_ApplyFrame == [][C9Step]_vars

\* layer() has returned a service from a block still held by two BoxLayers.
C9_Witness ==
  \E b \in LiveBoxes :
    /\ adapters[boxes[b].from].strong = 2
    /\ \A t \in Threads : ~InLayer(t)

\* C10: a BoxService holds nothing of the Arc block it came from: layer()
\* leaves every strong count as it was, the block is freed when its last
\* BoxLayer is dropped even if services made from it are still held, and
\* such a service goes on answering as the concrete service does.
C10Inv ==
  /\ \A a \in AdapterIds : adapters[a].state = "live" => HandlesOf(a) # {}
  /\ \A b \in LiveBoxes :
       HandlesOf(boxes[b].from) = {} =>
         /\ adapters[boxes[b].from].state = "freed"
         /\ cells[boxes[b].cell] = BoxServiceNew(boxes[b].ref)
         /\ \A r \in Requests :
              /\ InvokeResult(b, r) = RefResult(b, r)
              /\ InvokeResult(b, r) # Undefined

C10Step ==
  applyCalls' # applyCalls =>
    \A a \in AdapterIds : adapters'[a].strong = adapters[a].strong

C10_BoxOutlivesAdapter == []C10Inv /\ [][C10Step]_vars

\* Every BoxLayer is gone, the block is freed, and a service made from it
\* has been called since.
C10_Witness ==
  /\ late
  /\ LiveHandles = {}
  /\ \E b \in LiveBoxes :
       adapters[boxes[b].from].state = "freed" /\ boxes[b].ref.touched

====
